---- MODULE Spec2Model ----
(***************************************************************************)
(* solaredge-mqtt: the supervisor (cli.py, solaredge_mqtt), the            *)
(* acquisition unit (solaredge.py, solaredge_main), the hand-off queue     *)
(* (multiprocessing.Queue) and the delivery unit (mqtt_main).              *)
(*                                                                         *)
(* Time is counted in units of 0.1 ms, so that one tenth of a clock        *)
(* reading (line 140, epsilon + 0.1 * delta) is again a whole number.      *)
(* Clock readings and wake-up instants fall on whole milliseconds.         *)
(***************************************************************************)
EXTENDS Integers, Sequences, FiniteSets, TLC

\* ------------------------------------------------------------------ bounds

\* Loop iterations of solaredge_main (line 78) explored.
MaxCycles == 3

\* Largest --buffer-size explored.
MaxCapacity == 2

\* ------------------------------------------------------------------- units

\* solaredge.py:139-140, "Take the average over the last 10":
\* epsilon + (0.1 * delta) is epsilon + delta / AvgWindow
AvgWindow == 10

\* One millisecond and one second, in units of 0.1 ms
Ms == AvgWindow
Sec == 1000 * Ms

\* -------------------------------------------------------- program constants

\* solaredge.py:73, maxdelta = 0.05 (seconds)
maxdelta == 50 * Ms

\* solaredge.py:161, event.wait(timeout=5)
ErrorBackoff == 5 * Sec

\* cli.py:263, time.sleep(1)
PollSleep == 1 * Sec

\* A Python value of the configuration: None, a number (kind "num": an int
\* or a float; durations in units of 0.1 ms) or a string (kind "str"; n
\* identifies the text, and numeric says whether int()/float() accept it,
\* n then being the number it denotes).
None == [kind |-> "None", n |-> 0, numeric |-> FALSE]
Num(n) == [kind |-> "num", n |-> n, numeric |-> TRUE]
Str(n) == [kind |-> "str", n |-> n, numeric |-> FALSE]
NumStr(n) == [kind |-> "str", n |-> n, numeric |-> TRUE]

\* Python truthiness of a value: None, 0 and "" are false
Truthy(v) ==
    CASE v.kind = "None" -> FALSE
      [] v.kind = "num" -> v.n # 0
      [] OTHER -> v.numeric \/ v.n # 0

\* Identifiers of the texts that occur: "" is 0
TopicDefault == Str(1)
ClientIdDefault == Str(2)
HostA == Str(3)
HostB == Str(4)
Garbage == Str(5)

\* cli.py:22-30 (durations in units of 0.1 ms)
DEFAULTS ==
    [ mqtt_port      |-> Num(1883),
      buffer_size    |-> Num(100000),
      mqtt_topic     |-> TopicDefault,
      mqtt_client_id |-> ClientIdDefault,
      solaredge_port |-> Num(1502),
      read_every     |-> Num(5 * Sec),
      time_offset    |-> Num(0) ]

\* --------------------------------------------------------------- utilities

Abs(x) == IF x < 0 THEN -x ELSE x

\* ceiling of a / b for b > 0 (TLA+'s \div is the floor)
CeilDiv(a, b) == -((-a) \div b)

Restrict(f, S) == [k \in S |-> f[k]]

EmptyDict == [k \in {} |-> 0]

\* f with key k bound to v (a dict assignment)
Assign(f, k, v) == [x \in DOMAIN f \cup {k} |-> IF x = k THEN v ELSE f[x]]

\* ----------------------------------------------------------- configuration

\* cli.py:102-164, the options of the parser that carry a value
ArgNames ==
    { "config", "mqtt_topic", "solaredge_host", "solaredge_port", "read_every",
      "time_offset", "mqtt_host", "mqtt_port", "mqtt_client_id", "buffer_size" }

\* cli.py:117-163, the options declared with type=int or type=float
NumericArgs ==
    { "solaredge_port", "read_every", "time_offset", "mqtt_port", "buffer_size" }

\* cli.py:166, parser.parse_args(): -h prints the help and exits 0, a value
\* that its type= rejects is a usage error and exits 2, an option not given
\* is None (every default= is None)
parse_args(argv) ==
    IF argv.help THEN [exit |-> <<0>>, args |-> EmptyDict]
    ELSE IF \E o \in DOMAIN argv.opts \cap NumericArgs : ~argv.opts[o].numeric
    THEN [exit |-> <<2>>, args |-> EmptyDict]
    ELSE [exit |-> <<>>,
          args |-> [o \in ArgNames |->
                      IF o \notin DOMAIN argv.opts THEN None
                      ELSE IF o \in NumericArgs THEN Num(argv.opts[o].n)
                      ELSE argv.opts[o]]]

\* cli.py:47-93, the options load_config_file copies; the ones it reads with
\* ini.getint (lines 52, 72, 86); the config key of each
IniGet == { "solaredge-host", "read-every", "time-offset", "mqtt-host", "mqtt-client-id" }
IniGetInt == { "solaredge-port", "mqtt-port", "buffer-size" }
IniKey(o) ==
    CASE o = "solaredge-host" -> "solaredge_host"
      [] o = "solaredge-port" -> "solaredge_port"
      [] o = "read-every" -> "read_every"
      [] o = "time-offset" -> "time_offset"
      [] o = "mqtt-host" -> "mqtt_host"
      [] o = "mqtt-port" -> "mqtt_port"
      [] o = "mqtt-client-id" -> "mqtt_client_id"
      [] o = "buffer-size" -> "buffer_size"

\* A config file that cannot be opened or parsed
NoFile == [readable |-> FALSE, general |-> EmptyDict]

\* cli.py:33-95, load_config_file. f.general holds the options of section
\* general; ini.get returns the text as it is, ini.getint converts it or
\* raises ValueError
load_config_file(f) ==
    IF ~f.readable THEN [exit |-> <<1>>, config |-> EmptyDict]
    ELSE LET ini == f.general
             has == DOMAIN ini
         IN IF \E o \in has \cap IniGetInt : ~ini[o].numeric
            THEN [exit |-> <<1>>, config |-> EmptyDict]
            ELSE [exit |-> <<>>,
                  config |->
                    [k \in {IniKey(o) : o \in has \cap (IniGet \cup IniGetInt)} |->
                       LET o == CHOOSE x \in has \cap (IniGet \cup IniGetInt) : IniKey(x) = k
                       IN IF o \in IniGetInt THEN Num(ini[o].n) ELSE ini[o]]]

\* cli.py:178-224, one option: the command line's value if it is truthy,
\* otherwise what the config file set, otherwise the default if there is one
MergeOption(cfg, args, k) ==
    IF Truthy(args[k]) THEN Assign(cfg, k, args[k])
    ELSE IF k \notin DOMAIN cfg /\ k \in DOMAIN DEFAULTS THEN Assign(cfg, k, DEFAULTS[k])
    ELSE cfg

\* cli.py:178-224, in the order of the code
MergeOrder ==
    << "solaredge_host", "solaredge_port", "read_every", "time_offset", "mqtt_topic",
       "mqtt_host", "mqtt_port", "mqtt_client_id", "buffer_size" >>

RECURSIVE MergeFrom(_, _, _)
MergeFrom(cfg, args, i) ==
    IF i > Len(MergeOrder) THEN cfg
    ELSE MergeFrom(MergeOption(cfg, args, MergeOrder[i]), args, i + 1)

MergeConfig(cfg, args) == MergeFrom(cfg, args, 1)

\* cli.py:228-234
HostsGiven(cfg) == "solaredge_host" \in DOMAIN cfg /\ "mqtt_host" \in DOMAIN cfg

\* ------------------------------------------------------------ scale factors

\* Decimal places kept of a scaled value: value * 10^e, e >= -FracDigits, is
\* held as the whole number value * 10^(e + FracDigits)
FracDigits == 2

\* solaredge.py:21-41, in the order of the dict
SCALEFACTORS ==
    << <<"current_scale", {"current", "p1_current", "p2_current", "p3_current"}>>,
       <<"voltage_scale", {"p1_voltage", "p2_voltage", "p3_voltage",
                           "p1n_voltage", "p2n_voltage", "p3n_voltage"}>>,
       <<"power_ac_scale", {"power_ac"}>>,
       <<"frequency_scale", {"frequency"}>>,
       <<"power_apparent_scale", {"power_apparent"}>>,
       <<"power_reactive_scale", {"power_reactive"}>>,
       <<"power_factor_scale", {"power_factor"}>>,
       <<"energy_total_scale", {"energy_total"}>>,
       <<"current_dc_scale", {"current_dc"}>>,
       <<"voltage_dc_scale", {"voltage_dc"}>>,
       <<"power_dc_scale", {"power_dc"}>>,
       <<"temperature_scale", {"temperature"}>> >>

ScaleFields == {SCALEFACTORS[i][1] : i \in DOMAIN SCALEFACTORS}
TargetFields == UNION {SCALEFACTORS[i][2] : i \in DOMAIN SCALEFACTORS}

RECURSIVE Pow10(_)
Pow10(k) == IF k <= 0 THEN 1 ELSE 10 * Pow10(k - 1)

\* solaredge.py:171, data[field] * (10 ** data[scalefactor])
Scaled(v, e) == v * Pow10(e + FracDigits)

\* A pair applied without deleting its scale factor
ApplyPairKeep(d, scalefactor, fields) ==
    [f \in DOMAIN d |->
        IF f \in fields THEN d[f] * Pow10(d[scalefactor] + FracDigits) ELSE d[f]]

\* solaredge.py:169-173, one pair of the table whose scale factor is in the
\* reading: its fields are scaled and the scale factor is deleted
ApplyPair(d, scalefactor, fields) ==
    [f \in DOMAIN d \ {scalefactor} |->
        IF f \in fields THEN Scaled(d[f], d[scalefactor]) ELSE d[f]]

\* solaredge.py:168-173, the loop over the table from its i-th pair on.
\* data[scalefactor] (line 171) and del data[scalefactor] (line 173) raise
\* KeyError when the scale factor is not in the reading, whether or not a
\* field of the pair is
RECURSIVE ScaleFrom(_, _)
ScaleFrom(d, i) ==
    IF i > Len(SCALEFACTORS) THEN [raised |-> FALSE, data |-> d]
    ELSE IF SCALEFACTORS[i][1] \notin DOMAIN d THEN [raised |-> TRUE, data |-> d]
    ELSE CHOOSE r \in {ScaleFrom(x, i + 1) :
                          x \in {ApplyPair(d, SCALEFACTORS[i][1], SCALEFACTORS[i][2])}} : TRUE

ScaleTransform(d) == ScaleFrom(d, 1)

\* A conversion that rounds x / q to the nearest integer, q > 0 even
RoundDiv(x, q) == (x + q \div 2) \div q

\* int(x / q) for q > 0: Python's int() truncates toward zero
TruncDiv(x, q) == IF x >= 0 THEN x \div q ELSE -((-x) \div q)

\* solaredge.py:179, int((nextrun - config["time_offset"]) * 1000), in ms
Timestamp(nextRun, timeOffset) == TruncDiv(nextRun - timeOffset, Ms)

\* ------------------------------------------------------------------- queue

\* multiprocessing.Queue(maxsize): a maxsize <= 0 means no limit but the
\* platform's largest semaphore value (cli.py:236-238)
SemValueMax == 2^31 - 1
QueueMaxsize(maxsize) == IF maxsize <= 0 THEN SemValueMax ELSE maxsize

\* A put() that never finds the queue full
PutUnbounded(q, maxsize, item) == [raised |-> FALSE, queue |-> Append(q, item)]

\* A put() that adds at the head of the queue
PutFront(q, maxsize, item) ==
    IF Len(q) >= maxsize THEN [raised |-> TRUE, queue |-> q]
    ELSE [raised |-> FALSE, queue |-> <<item>> \o q]

\* solaredge.py:182, mqtt_queue.put(data, block=False): appends, or raises
\* queue.Full when the queue already holds maxsize items
Put(q, maxsize, item) ==
    IF Len(q) >= QueueMaxsize(maxsize) THEN [raised |-> TRUE, queue |-> q]
    ELSE [raised |-> FALSE, queue |-> Append(q, item)]

\* solaredge.py:181-185, the put and its except Exception: pass
PutIgnoringFull(q, maxsize, item) == Put(q, maxsize, item).queue

\* A put() with block=True: it waits for a free slot
PutWaits(q, maxsize) == Len(q) < maxsize

\* solaredge.py:182, block=False: put() returns (or raises) at once whatever
\* the queue holds; it never waits for a free slot
PutReturns(q, maxsize) == TRUE

\* ------------------------------------------------------------- environment

\* What the device client's read_all() can give (solaredge.py:155): a
\* complete reading, a reading without some scale factor, no data at all,
\* or one of the two exceptions the loop catches
FullReading ==
    [f \in ScaleFields \cup TargetFields \cup {"c_serialnumber", "status"} |->
        CASE f \in {"current_scale", "voltage_scale", "frequency_scale"} -> -2
          [] f \in {"power_ac_scale", "energy_total_scale", "power_dc_scale"} -> 1
          [] f \in ScaleFields -> -1
          [] f \in {"current", "current_dc"} -> 1234
          [] f \in TargetFields -> 57
          [] OTHER -> 4]

PartialReading == [f \in {"c_serialnumber", "status", "current"} |-> 7]

ReadResults ==
    { [exc |-> "none", data |-> FullReading],
      [exc |-> "none", data |-> PartialReading],
      [exc |-> "none", data |-> EmptyDict],
      [exc |-> "ConnectionException", data |-> EmptyDict] }

\* How late event.wait() returns (solaredge.py:95), whole milliseconds
Latencies == {0, 60 * Ms}

\* How long read_all() takes (solaredge.py:155), whole milliseconds
ReadDurations == {20 * Ms}

\* How long an iteration that restarts at line 92 takes
RestartDurations == {1 * Ms}

\* The wider choices the acquisition unit is explored with on its own: a
\* wake-up exactly 0.05 s late, one 1 s late, a ValueError from the client,
\* a read that takes no measurable time
AllLatencies == Latencies \cup {50 * Ms, 1 * Sec}
AllReadResults == ReadResults \cup {[exc |-> "ValueError", data |-> EmptyDict]}
AllReadDurations == ReadDurations \cup {0}

\* The readings the scaling and the time stamp are explored with on their
\* own: every scale factor present, current_scale e and the others -1, with
\* any of four value fields; and readings in which one scale factor is
\* missing, its value field present or not
Exponents == {-2, 0, 1}
SomeTargets == {"current", "p1_current", "power_ac", "temperature"}

ReadingWith(scales, targets, e) ==
    [f \in scales \cup targets \cup {"c_serialnumber", "status"} |->
        CASE f = "current_scale" -> e
          [] f \in ScaleFields -> -1
          [] f = "current" -> 1234
          [] f = "temperature" -> -57
          [] f \in TargetFields -> 57
          [] OTHER -> 4]

CompleteReadings ==
    {ReadingWith(ScaleFields, t, e) : t \in SUBSET SomeTargets, e \in Exponents}

IncompleteReadings ==
    {ReadingWith(ScaleFields \ {m}, t, 0) :
        m \in {"current_scale", "temperature_scale"},
        t \in {{}, {"current"}, {"temperature"}}}

TransformReadings == CompleteReadings \cup IncompleteReadings

\* The time offsets they are explored with: none, 2 s, 0.4 ms, 0.6 ms, and
\* 0.6 ms more than the boundary itself
TransformBoundary == 100 * Sec
TransformOffsets == {0, 2 * Sec, 4, 6, TransformBoundary + 6}

TransformConfigs ==
    { [k \in {"solaredge_host", "mqtt_host"} \cup DOMAIN DEFAULTS |->
         CASE k = "solaredge_host" -> HostA
           [] k = "mqtt_host" -> HostB
           [] k = "time_offset" -> Num(o)
           [] OTHER -> DEFAULTS[k]] : o \in TransformOffsets }

\* The configurations the acquisition unit is explored with on its own
SchedConfigs ==
    { [k \in DOMAIN c \cup DOMAIN DEFAULTS |-> IF k \in DOMAIN c THEN c[k] ELSE DEFAULTS[k]] :
        c \in { [solaredge_host |-> HostA, mqtt_host |-> HostB,
                 read_every |-> Num(100 * Ms), buffer_size |-> Num(1)],
                [solaredge_host |-> HostA, mqtt_host |-> HostB,
                 time_offset |-> Num(2 * Sec)] } }

\* The command lines and config files the whole-program specification starts
\* from: --buffer-size in 1..MaxCapacity and a 0.1 s --read-every with both
\* hosts, and one of each kind of start-up failure. file is what --config
\* names, read only when --config is given
GoodOpts(n) ==
    [o \in {"solaredge_host", "mqtt_host", "buffer_size", "read_every"} |->
        CASE o = "solaredge_host" -> HostA
          [] o = "mqtt_host" -> HostB
          [] o = "buffer_size" -> NumStr(n)
          [] OTHER -> NumStr(100 * Ms)]

Launches ==
    { [argv |-> [help |-> FALSE, opts |-> GoodOpts(n)], file |-> NoFile] :
         n \in 1..MaxCapacity }
    \cup
    { [argv |-> [help |-> TRUE, opts |-> EmptyDict], file |-> NoFile],
      [argv |-> [help |-> FALSE,
                 opts |-> Assign(GoodOpts(1), "mqtt_port", Garbage)],
       file |-> NoFile],
      [argv |-> [help |-> FALSE,
                 opts |-> Restrict(GoodOpts(1), {"solaredge_host", "buffer_size"})],
       file |-> NoFile],
      [argv |-> [help |-> FALSE,
                 opts |-> Restrict(GoodOpts(1), {"mqtt_host", "buffer_size"})],
       file |-> NoFile],
      [argv |-> [help |-> FALSE, opts |-> Assign(GoodOpts(1), "config", Str(6))],
       file |-> NoFile],
      [argv |-> [help |-> FALSE, opts |-> Assign(GoodOpts(1), "config", Str(6))],
       file |-> [readable |-> TRUE, general |-> [o \in {"buffer-size"} |-> Garbage]]],
      [argv |-> [help |-> FALSE, opts |-> [o \in {"config"} |-> Str(6)]],
       file |-> [readable |-> TRUE, general |->
                   [o \in {"solaredge-host", "mqtt-host", "read-every", "buffer-size"} |->
                       CASE o = "solaredge-host" -> HostA
                         [] o = "mqtt-host" -> HostB
                         [] o = "read-every" -> NumStr(100 * Ms)
                         [] OTHER -> NumStr(1)]]] }

\* The command lines and config files the completion of the config is
\* explored with on its own: both hosts on the command line; --time-offset
\* not given, 0 or 2 s; --buffer-size not given, 0 or 1; --mqtt-topic given
\* or not; no --config, or --config naming an empty file or a file that sets
\* time-offset, buffer-size, mqtt-client-id and mqtt-topic
ConfigFiles ==
    { [readable |-> TRUE, general |-> EmptyDict],
      [readable |-> TRUE, general |->
         [o \in {"time-offset", "buffer-size", "mqtt-client-id", "mqtt-topic"} |->
             CASE o = "time-offset" -> NumStr(3 * Sec)
               [] o = "buffer-size" -> NumStr(2)
               [] o = "mqtt-client-id" -> Str(8)
               [] OTHER -> Str(9)]] }

ConfigOpts(timeOffset, bufferSize, topic, named) ==
    [o \in {"solaredge_host", "mqtt_host"}
            \cup {x \in {"time_offset"} : timeOffset # <<>>}
            \cup {x \in {"buffer_size"} : bufferSize # <<>>}
            \cup {x \in {"mqtt_topic"} : topic}
            \cup {x \in {"config"} : named} |->
        CASE o = "solaredge_host" -> HostA
          [] o = "mqtt_host" -> HostB
          [] o = "time_offset" -> NumStr(timeOffset[1])
          [] o = "buffer_size" -> NumStr(bufferSize[1])
          [] o = "mqtt_topic" -> Str(7)
          [] OTHER -> Str(6)]

ConfigLaunches ==
    { [argv |-> [help |-> FALSE, opts |-> ConfigOpts(t, b, topic, FALSE)],
       file |-> NoFile] :
         t \in {<<>>, <<0>>, <<2 * Sec>>}, b \in {<<>>, <<0>>, <<1>>},
         topic \in BOOLEAN }
    \cup
    { [argv |-> [help |-> FALSE, opts |-> ConfigOpts(t, b, topic, TRUE)],
       file |-> f] :
         t \in {<<>>, <<0>>, <<2 * Sec>>}, b \in {<<>>, <<0>>, <<1>>},
         topic \in BOOLEAN, f \in ConfigFiles }

\* ------------------------------------------------------------------- state

VARIABLES
    \* the supervisor, cli.py solaredge_mqtt()
    argv,          \* the command line
    file,          \* the config file --config names
    args,          \* parser.parse_args()
    config,        \* the config dict
    supPc,         \* where solaredge_mqtt() is
    run,           \* cli.py:255
    supSleepLeft,  \* what is left of the time.sleep(1) under way
    exitStatus,    \* <<>> while the process runs, <<status>> once it exited
    procs,         \* each child process: "unstarted", "alive", "failed"
                   \* (ended by itself) or "terminated" (ended by SIGTERM)
    sigterm,       \* the children proc.terminate() has signalled
    \* the hand-off queue, cli.py:236
    mqtt_queue,
    \* the acquisition unit, solaredge.py solaredge_main()
    sePc,          \* where solaredge_main() is
    clock,         \* time.time()
    epsilon,       \* solaredge.py:66
    nextrun,       \* solaredge.py:81
    sleep,         \* solaredge.py:82
    delta,         \* solaredge.py:98
    data,          \* solaredge.py:155
    cycles,        \* iterations of the loop begun
    \* the delivery unit, mqtt.py mqtt_main()
    mqPc,          \* where mqtt_main() is
    mqItem,        \* the record it holds
    \* history
    nextId,        \* records handed to put() so far, plus one
    lastPut,       \* how the last put() ended: "none", "stored", "Full"
    lastPopped,    \* id of the last record the delivery unit popped
    sinceDeath     \* supervisor sleep time elapsed since a child first ended

supVars == <<argv, file, args, config, supPc, run, supSleepLeft, exitStatus>>
seVars == <<sePc, clock, epsilon, nextrun, sleep, delta, data, cycles>>
mqVars == <<mqPc, mqItem>>
histVars == <<nextId, lastPut, lastPopped>>
vars == <<supVars, procs, sigterm, mqtt_queue, seVars, mqVars, histVars, sinceDeath>>

Children == {"solaredge", "mqtt"}
Ended(p) == procs[p] \in {"failed", "terminated"}

\* -------------------------------------------------------------- supervisor

\* cli.py:166
SupParseArgs ==
    /\ supPc = "parse_args"
    /\ LET r == parse_args(argv)
       IN /\ args' = r.args
          /\ exitStatus' = r.exit
          /\ supPc' = IF r.exit = <<>> THEN "load_config" ELSE "exited"
    /\ UNCHANGED <<argv, file, config, run, supSleepLeft, procs, sigterm, mqtt_queue,
                   seVars, mqVars, histVars, sinceDeath>>

\* cli.py:171-176
SupLoadConfig ==
    /\ supPc = "load_config"
    /\ LET r == IF Truthy(args["config"]) THEN load_config_file(file)
                ELSE [exit |-> <<>>, config |-> EmptyDict]
       IN /\ config' = r.config
          /\ exitStatus' = r.exit
          /\ supPc' = IF r.exit = <<>> THEN "complete_config" ELSE "exited"
    /\ UNCHANGED <<argv, file, args, run, supSleepLeft, procs, sigterm, mqtt_queue,
                   seVars, mqVars, histVars, sinceDeath>>

\* cli.py:178-234
SupCompleteConfig ==
    /\ supPc = "complete_config"
    /\ config' = MergeConfig(config, args)
    /\ IF HostsGiven(config')
       THEN supPc' = "start_solaredge" /\ exitStatus' = <<>>
       ELSE supPc' = "exited" /\ exitStatus' = <<1>>
    /\ UNCHANGED <<argv, file, args, run, supSleepLeft, procs, sigterm, mqtt_queue,
                   seVars, mqVars, histVars, sinceDeath>>

\* cli.py:236-245
SupStartSolaredge ==
    /\ supPc = "start_solaredge"
    /\ mqtt_queue' = <<>>
    /\ procs' = [procs EXCEPT !["solaredge"] = "alive"]
    /\ supPc' = "start_mqtt"
    /\ UNCHANGED <<argv, file, args, config, run, supSleepLeft, exitStatus, sigterm,
                   seVars, mqVars, histVars, sinceDeath>>

\* cli.py:247-255
SupStartMqtt ==
    /\ supPc = "start_mqtt"
    /\ procs' = [procs EXCEPT !["mqtt"] = "alive"]
    /\ run' = TRUE
    /\ supPc' = "monitor"
    /\ UNCHANGED <<argv, file, args, config, supSleepLeft, exitStatus, sigterm,
                   mqtt_queue, seVars, mqVars, histVars, sinceDeath>>

\* proc.is_alive()
IsAlive(p) == procs[p] = "alive"

\* A poll that looks at the first child only
FirstAlive == IsAlive("solaredge")

\* cli.py:258-259, the for loop over procs
AllAlive == \A p \in Children : IsAlive(p)

\* cli.py:258-263, the liveness poll: the for loop, then the sleep begins
\* (also when run was just set to False)
SupPoll ==
    /\ supPc = "monitor"
    /\ run' = IF AllAlive THEN run ELSE FALSE
    /\ supPc' = "sleep"
    /\ supSleepLeft' = PollSleep
    /\ UNCHANGED <<argv, file, args, config, exitStatus, procs, sigterm, mqtt_queue,
                   seVars, mqVars, histVars, sinceDeath>>

\* cli.py:263, half a second of time.sleep(1) goes by
SleepStep == PollSleep \div 2

SupSleeping ==
    /\ supPc = "sleep"
    /\ supSleepLeft > 0
    /\ supSleepLeft' = supSleepLeft - SleepStep
    /\ sinceDeath' = IF \E p \in Children : Ended(p) THEN sinceDeath + SleepStep
                     ELSE sinceDeath
    /\ UNCHANGED <<argv, file, args, config, supPc, run, exitStatus, procs, sigterm,
                   mqtt_queue, seVars, mqVars, histVars>>

\* A loop that polls once and leaves
LoopOnce(r) == "terminate"

\* cli.py:256, the sleep is over and while run: is evaluated
LoopTest(r) == IF r THEN "monitor" ELSE "terminate"

SupWake ==
    /\ supPc = "sleep"
    /\ supSleepLeft = 0
    /\ supPc' = LoopTest(run)
    /\ UNCHANGED <<argv, file, args, config, run, supSleepLeft, exitStatus, procs,
                   sigterm, mqtt_queue, seVars, mqVars, histVars, sinceDeath>>

\* cli.py:264-266, KeyboardInterrupt inside the try
SupInterrupt ==
    /\ supPc \in {"monitor", "sleep"}
    /\ run' = FALSE
    /\ supPc' = LoopTest(run')
    /\ UNCHANGED <<argv, file, args, config, supSleepLeft, exitStatus, procs, sigterm,
                   mqtt_queue, seVars, mqVars, histVars, sinceDeath>>

\* cli.py:268-269, proc.terminate() sends SIGTERM to each child
SupTerminate ==
    /\ supPc = "terminate"
    /\ sigterm' = Children
    /\ supPc' = "exit"
    /\ UNCHANGED <<argv, file, args, config, run, supSleepLeft, exitStatus, procs,
                   mqtt_queue, seVars, mqVars, histVars, sinceDeath>>

\* An exit that reports success after an orderly shutdown
SupExitZero ==
    /\ supPc = "exit"
    /\ \A p \in Children : procs[p] # "alive"
    /\ exitStatus' = <<0>>
    /\ supPc' = "exited"
    /\ UNCHANGED <<argv, file, args, config, run, supSleepLeft, procs, sigterm,
                   mqtt_queue, seVars, mqVars, histVars, sinceDeath>>

\* cli.py:270, raise SystemExit(1). The interpreter's shutdown runs
\* multiprocessing's exit handler, which joins every child that is not a
\* daemon (lines 241-249 create both without daemon=True): the process ends
\* once none is alive
ExitAtOnce == TRUE

ExitJoined == \A p \in Children : ~IsAlive(p)

SupExit ==
    /\ supPc = "exit"
    /\ ExitJoined
    /\ exitStatus' = <<1>>
    /\ supPc' = "exited"
    /\ UNCHANGED <<argv, file, args, config, run, supSleepLeft, procs, sigterm,
                   mqtt_queue, seVars, mqVars, histVars, sinceDeath>>

\* A child that notices the signal only where it waits
StopsWhereItWaits(p) == IF p = "solaredge" THEN sePc \in {"wait", "backoff"} ELSE mqPc = "get"

\* cli.py:269, proc.terminate() is SIGTERM, for which neither child
\* installs a handler: the signal ends the child wherever it is
StopsAnywhere(p) == TRUE

\* SIGTERM reaches child p
Sigterm(p) ==
    /\ p \in sigterm
    /\ IsAlive(p)
    /\ StopsAnywhere(p)
    /\ procs' = [procs EXCEPT ![p] = "terminated"]
    /\ UNCHANGED <<supVars, sigterm, mqtt_queue, seVars, mqVars, histVars, sinceDeath>>

\* --------------------------------------------------------- acquisition unit

\* An uncaught exception ends solaredge_main()
SeRaise ==
    /\ procs' = [procs EXCEPT !["solaredge"] = "failed"]

\* A boundary that is always after now
NextRunAfter(now, synctime) == (now \div synctime + 1) * synctime

\* solaredge.py:81, math.ceil(now / synctime) * synctime
NextRun(now, synctime) == CeilDiv(now, synctime) * synctime

\* solaredge.py:82
SleepFor(now, synctime, eps) == NextRun(now, synctime) - now - eps

\* solaredge.py:84
NegativeSleep(s) == s < 0

\* solaredge.py:78-92, the head of the loop. A synctime that is not a number
\* makes now / synctime raise TypeError. With a negative sleep the iteration
\* logs and restarts, which takes d
SeStart(d) ==
    /\ IsAlive("solaredge")
    /\ sePc = "start"
    /\ cycles < MaxCycles
    /\ cycles' = cycles + 1
    /\ IF config["read_every"].kind # "num"
       THEN /\ SeRaise
            /\ UNCHANGED <<sePc, clock, nextrun, sleep>>
       ELSE LET synctime == config["read_every"].n
            IN /\ nextrun' = NextRun(clock, synctime)
               /\ sleep' = SleepFor(clock, synctime, epsilon)
               /\ IF NegativeSleep(sleep')
                  THEN sePc' = "start" /\ clock' = clock + d
                  ELSE sePc' = "wait" /\ clock' = clock
               /\ UNCHANGED procs
    /\ UNCHANGED <<supVars, sigterm, mqtt_queue, epsilon, delta, data, mqVars,
                   histVars, sinceDeath>>

\* A correction by the whole offset at once
FullCorrection(eps, dlt) == eps + dlt

\* solaredge.py:140
NewEpsilon(eps, dlt) == eps + dlt \div AvgWindow

\* A skip test that also skips an offset of exactly maxdelta
SkipAtThreshold(dlt) == Abs(dlt) >= maxdelta

\* solaredge.py:150
Skip(dlt) == Abs(dlt) > maxdelta

\* solaredge.py:95-152, event.wait(timeout=sleep) returns late by the
\* latency, at a whole millisecond; epsilon is corrected; the run is skipped
\* when the offset is too large
SeWake(latency) ==
    /\ IsAlive("solaredge")
    /\ sePc = "wait"
    /\ LET start == CeilDiv(clock + sleep, Ms) * Ms + latency
       IN /\ clock' = start
          /\ delta' = start - nextrun
          /\ epsilon' = NewEpsilon(epsilon, delta')
          /\ sePc' = IF Skip(delta') THEN "start" ELSE "read"
    /\ UNCHANGED <<supVars, procs, sigterm, mqtt_queue, nextrun, sleep, data, cycles,
                   mqVars, histVars, sinceDeath>>

\* solaredge.py:158, what except (ValueError, ConnectionException) catches
Caught(exc) == exc \in {"ValueError", "ConnectionException"}

\* solaredge.py:154-162, inverter.read_all() returns r after d; no data is a
\* ValueError
SeRead(r, d) ==
    /\ IsAlive("solaredge")
    /\ sePc = "read"
    /\ clock' = clock + d
    /\ LET exc == IF r.exc = "none" /\ r.data = EmptyDict THEN "ValueError" ELSE r.exc
       IN IF exc = "none"
          THEN data' = r.data /\ sePc' = "scale" /\ UNCHANGED procs
          ELSE IF Caught(exc)
          THEN sePc' = "backoff" /\ UNCHANGED <<data, procs>>
          ELSE SeRaise /\ UNCHANGED <<data, sePc>>
    /\ UNCHANGED <<supVars, sigterm, mqtt_queue, epsilon, nextrun, sleep, delta, cycles,
                   mqVars, histVars, sinceDeath>>

\* A backoff that starts the drift correction afresh
SeBackoffResets ==
    /\ procs["solaredge"] = "alive"
    /\ sePc = "backoff"
    /\ clock' = clock + ErrorBackoff
    /\ epsilon' = 0
    /\ sePc' = "start"
    /\ UNCHANGED <<supVars, procs, sigterm, mqtt_queue, nextrun, sleep, delta,
                   data, cycles, mqVars, histVars, sinceDeath>>

\* solaredge.py:161-162, event.wait(timeout=5), then continue
SeBackoff ==
    /\ IsAlive("solaredge")
    /\ sePc = "backoff"
    /\ clock' = clock + ErrorBackoff
    /\ sePc' = "start"
    /\ UNCHANGED <<supVars, procs, sigterm, mqtt_queue, epsilon, nextrun, sleep, delta,
                   data, cycles, mqVars, histVars, sinceDeath>>

\* solaredge.py:166-179, the scale factors are applied and the time stamp is
\* added. A missing scale factor raises KeyError, a time offset that is not
\* a number TypeError; neither is caught
SeScale ==
    /\ IsAlive("solaredge")
    /\ sePc = "scale"
    /\ LET r == ScaleTransform(data)
       IN IF r.raised \/ config["time_offset"].kind # "num"
          THEN SeRaise /\ UNCHANGED <<data, sePc>>
          ELSE /\ data' = Assign(r.data, "solaredge_mqtt_timestamp",
                                 Timestamp(nextrun, config["time_offset"].n))
               /\ sePc' = "put"
               /\ UNCHANGED procs
    /\ UNCHANGED <<supVars, sigterm, mqtt_queue, clock, epsilon, nextrun, sleep, delta,
                   cycles, mqVars, histVars, sinceDeath>>

\* solaredge.py:181-185, the record is put on the queue without blocking,
\* and the loop starts over. id numbers the records put, for the history
SePut ==
    /\ IsAlive("solaredge")
    /\ sePc = "put"
    /\ PutReturns(mqtt_queue, config["buffer_size"].n)
    /\ LET item == [id |-> nextId, data |-> data]
       IN /\ mqtt_queue' = PutIgnoringFull(mqtt_queue, config["buffer_size"].n, item)
          /\ lastPut' = IF Put(mqtt_queue, config["buffer_size"].n, item).raised
                        THEN "Full" ELSE "stored"
    /\ nextId' = nextId + 1
    /\ sePc' = "start"
    /\ UNCHANGED <<supVars, procs, sigterm, clock, epsilon, nextrun, sleep, delta, data,
                   cycles, mqVars, lastPopped, sinceDeath>>

\* ------------------------------------------------------------ delivery unit

\* mqtt_main(): the blocking pop of the head of the queue
MqGet ==
    /\ IsAlive("mqtt")
    /\ mqPc = "get"
    /\ mqtt_queue # <<>>
    /\ mqItem' = <<Head(mqtt_queue)>>
    /\ mqtt_queue' = Tail(mqtt_queue)
    /\ lastPopped' = Head(mqtt_queue).id
    /\ mqPc' = "publish"
    /\ UNCHANGED <<supVars, procs, sigterm, seVars, nextId, lastPut, sinceDeath>>

\* mqtt_main(): the record is published, or the publish fails and is logged;
\* either way the record is gone and the next one is popped
MqPublish ==
    /\ IsAlive("mqtt")
    /\ mqPc = "publish"
    /\ mqItem' = <<>>
    /\ mqPc' = "get"
    /\ UNCHANGED <<supVars, procs, sigterm, mqtt_queue, seVars, histVars, sinceDeath>>

\* mqtt_main() ends with an unhandled failure
MqFail ==
    /\ IsAlive("mqtt")
    /\ procs' = [procs EXCEPT !["mqtt"] = "failed"]
    /\ UNCHANGED <<supVars, sigterm, mqtt_queue, seVars, mqVars, histVars, sinceDeath>>

\* ----------------------------------------------------------- specification

Init ==
    /\ \E l \in Launches : argv = l.argv /\ file = l.file
    /\ args = EmptyDict
    /\ config = EmptyDict
    /\ supPc = "parse_args"
    /\ run = FALSE
    /\ supSleepLeft = 0
    /\ exitStatus = <<>>
    /\ procs = [p \in Children |-> "unstarted"]
    /\ sigterm = {}
    /\ mqtt_queue = <<>>
    /\ sePc = "start"
    /\ clock \in {1234 * Ms}
    /\ epsilon = 0
    /\ nextrun = 0
    /\ sleep = 0
    /\ delta = 0
    /\ data = EmptyDict
    /\ cycles = 0
    /\ mqPc = "get"
    /\ mqItem = <<>>
    /\ nextId = 1
    /\ lastPut = "none"
    /\ lastPopped = 0
    /\ sinceDeath = 0

Next ==
    \/ SupParseArgs
    \/ SupLoadConfig
    \/ SupCompleteConfig
    \/ SupStartSolaredge
    \/ SupStartMqtt
    \/ SupPoll
    \/ SupSleeping
    \/ SupWake
    \/ SupInterrupt
    \/ SupTerminate
    \/ SupExit
    \/ \E p \in Children : Sigterm(p)
    \/ \E d \in RestartDurations : SeStart(d)
    \/ \E l \in Latencies : SeWake(l)
    \/ \E r \in ReadResults, d \in ReadDurations : SeRead(r, d)
    \/ SeBackoff
    \/ SeScale
    \/ SePut
    \/ MqGet
    \/ MqPublish
    \/ MqFail

Spec == Init /\ [][Next]_vars

\* The whole program with the supervisor scheduled fairly: when
\* solaredge_mqtt() can take its next step it eventually takes it, and a
\* signal sent is delivered. Nothing is assumed of the children's progress,
\* of the failures or of the interrupt
SupStep ==
    \/ SupParseArgs \/ SupLoadConfig \/ SupCompleteConfig
    \/ SupStartSolaredge \/ SupStartMqtt
    \/ SupPoll \/ SupSleeping \/ SupWake \/ SupTerminate \/ SupExit

Fairness ==
    /\ WF_vars(SupStep)
    /\ WF_vars(\E p \in Children : Sigterm(p))

FairSpec == Init /\ [][Next]_vars /\ Fairness

\* The acquisition unit on its own, both children started and the
\* supervisor polling: solaredge_main() from its first iteration
SchedInit ==
    /\ argv = [help |-> FALSE, opts |-> EmptyDict]
    /\ file = NoFile
    /\ args = EmptyDict
    /\ config \in SchedConfigs
    /\ supPc = "monitor"
    /\ run = TRUE
    /\ supSleepLeft = 0
    /\ exitStatus = <<>>
    /\ procs = [p \in Children |-> "alive"]
    /\ sigterm = {}
    /\ mqtt_queue = <<>>
    /\ sePc = "start"
    /\ clock \in {1234 * Ms, 12300 * Ms, 15 * Sec}
    /\ epsilon = 0
    /\ nextrun = 0
    /\ sleep = 0
    /\ delta = 0
    /\ data = EmptyDict
    /\ cycles = 0
    /\ mqPc = "get"
    /\ mqItem = <<>>
    /\ nextId = 1
    /\ lastPut = "none"
    /\ lastPopped = 0
    /\ sinceDeath = 0

SchedNext ==
    \/ \E d \in RestartDurations : SeStart(d)
    \/ \E l \in AllLatencies : SeWake(l)
    \/ \E r \in AllReadResults, d \in AllReadDurations : SeRead(r, d)
    \/ SeBackoff
    \/ SeScale
    \/ SePut

SchedSpec == SchedInit /\ [][SchedNext]_vars

\* The same with the process scheduled fairly
SchedFairSpec ==
    /\ SchedInit
    /\ [][SchedNext]_vars
    /\ WF_vars(\E d \in RestartDurations : SeStart(d))
    /\ WF_vars(\E l \in AllLatencies : SeWake(l))
    /\ WF_vars(\E r \in AllReadResults, d \in AllReadDurations : SeRead(r, d))
    /\ WF_vars(SeBackoff \/ SeScale \/ SePut)

\* The scaling, the time stamp and the put on their own: solaredge_main() in
\* its first iteration, begun exactly on a boundary, the wait over at once
\* and read_all() back after 20 ms with the reading
TransformInit ==
    /\ argv = [help |-> FALSE, opts |-> EmptyDict]
    /\ file = NoFile
    /\ args = EmptyDict
    /\ config \in TransformConfigs
    /\ supPc = "monitor"
    /\ run = TRUE
    /\ supSleepLeft = 0
    /\ exitStatus = <<>>
    /\ procs = [p \in Children |-> "alive"]
    /\ sigterm = {}
    /\ mqtt_queue = <<>>
    /\ sePc = "scale"
    /\ clock = TransformBoundary + 20 * Ms
    /\ epsilon = 0
    /\ nextrun = TransformBoundary
    /\ sleep = 0
    /\ delta = 0
    /\ data \in TransformReadings
    /\ cycles = 1
    /\ mqPc = "get"
    /\ mqItem = <<>>
    /\ nextId = 1
    /\ lastPut = "none"
    /\ lastPopped = 0
    /\ sinceDeath = 0

TransformNext ==
    \/ SeScale
    \/ SePut

TransformSpec == TransformInit /\ [][TransformNext]_vars

\* The start-up on its own: solaredge_mqtt() from the command line to the
\* start of the two children
ConfigInit ==
    /\ \E l \in ConfigLaunches : argv = l.argv /\ file = l.file
    /\ args = EmptyDict
    /\ config = EmptyDict
    /\ supPc = "parse_args"
    /\ run = FALSE
    /\ supSleepLeft = 0
    /\ exitStatus = <<>>
    /\ procs = [p \in Children |-> "unstarted"]
    /\ sigterm = {}
    /\ mqtt_queue = <<>>
    /\ sePc = "start"
    /\ clock = 1234 * Ms
    /\ epsilon = 0
    /\ nextrun = 0
    /\ sleep = 0
    /\ delta = 0
    /\ data = EmptyDict
    /\ cycles = 0
    /\ mqPc = "get"
    /\ mqItem = <<>>
    /\ nextId = 1
    /\ lastPut = "none"
    /\ lastPopped = 0
    /\ sinceDeath = 0

ConfigNext ==
    \/ SupParseArgs
    \/ SupLoadConfig
    \/ SupCompleteConfig
    \/ SupStartSolaredge
    \/ SupStartMqtt

ConfigSpec == ConfigInit /\ [][ConfigNext]_vars

\* ------------------------------------------------------------------ claims

\* The queue exists and its capacity is a positive number
Capacity == config["buffer_size"].n
Bounded == "buffer_size" \in DOMAIN config /\ Capacity >= 1

QueueIds == [i \in 1..Len(mqtt_queue) |-> mqtt_queue[i].id]
Min(a, b) == IF a < b THEN a ELSE b

\* C1: the queue never holds more than its capacity N >= 1; a put on a queue
\* that holds N records leaves it as it is, drops the new record and lets
\* solaredge_main() go on to its next iteration; while nothing was popped
\* the queue holds the first min(pushes, N) records in the order of the puts
C1_Backpressure ==
    /\ [](Bounded => /\ Len(mqtt_queue) <= Capacity
                     /\ (lastPopped = 0 =>
                           QueueIds = [i \in 1..Min(nextId - 1, Capacity) |-> i]))
    /\ [][(Bounded /\ nextId' # nextId) =>
             /\ mqtt_queue' = IF Len(mqtt_queue) >= Capacity THEN mqtt_queue
                              ELSE Append(mqtt_queue, [id |-> nextId, data |-> data])
             /\ procs' = procs
             /\ sePc' = "start"]_vars

\* C1: N + 1 puts and no pop: the queue is full, the last record was dropped
C1_Witness ==
    /\ Bounded
    /\ lastPut = "Full"
    /\ lastPopped = 0
    /\ nextId = Capacity + 2
    /\ Len(mqtt_queue) = Capacity

\* C2: solaredge_main() never waits for room in the queue: whenever it is at
\* the put it can take it, and from a put on a full queue it gets back to
\* the head of its loop (unless the process is ended first)
C2_NeverStalls ==
    /\ []((sePc = "put" /\ IsAlive("solaredge")) => ENABLED SePut)
    /\ ((sePc = "put" /\ Bounded /\ Len(mqtt_queue) >= Capacity)
          ~> (sePc = "start" \/ ~IsAlive("solaredge")))

\* C2: a record was dropped on a full queue and the next iteration is under
\* way, the delivery unit having popped nothing
C2_Witness ==
    /\ lastPut = "Full"
    /\ lastPopped = 0
    /\ sePc = "wait"
    /\ Len(mqtt_queue) = Capacity

\* C3: the records are popped in the order they were put, each at most
\* once: the ids popped increase strictly and are ids of records put, and
\* the queue holds records put after the last one popped, in put order
C3_Fifo ==
    /\ [](\A i \in 1..Len(mqtt_queue) :
             /\ mqtt_queue[i].id > lastPopped
             /\ mqtt_queue[i].id < nextId
             /\ \A j \in 1..Len(mqtt_queue) :
                   i < j => mqtt_queue[i].id < mqtt_queue[j].id)
    /\ [][(mqPc = "get" /\ mqPc' = "publish") =>
             /\ lastPopped' > lastPopped
             /\ lastPopped' < nextId
             /\ mqItem'[1].id = lastPopped']_vars

\* C3: the delivery unit holds a record that is not the first one put, one
\* put before it having been dropped or popped
C3_Witness == mqItem # <<>> /\ mqItem[1].id > 1 /\ Len(mqtt_queue) > 0

\* C4: a read that fails or gives a bad reading never ends solaredge_main():
\* the process is never found ended at the scaling of a reading that the
\* scaling cannot handle
C4_BadReadingNeverFatal ==
    ~(procs["solaredge"] = "failed" /\ sePc = "scale" /\ ScaleTransform(data).raised)

\* C5 as stated: the children are signalled within one 1-second sleep of the
\* first child's end
C5_WithinOnePoll == sigterm # {} => sinceDeath <= PollSleep

\* C5 as amended: once a child has ended the supervisor signals both
\* children and exits with status 1, and at most two 1-second sleeps go by
\* between the child's end and the signal
C5_WithinTwoPolls ==
    /\ ((\E p \in Children : Ended(p))
          ~> (supPc = "exited" /\ exitStatus = <<1>> /\ sigterm = Children))
    /\ [](sigterm # {} => sinceDeath <= 2 * PollSleep)

\* C5: the delivery unit ended by itself, and the supervisor exited two
\* full sleeps later
C5_Witness ==
    /\ supPc = "exited"
    /\ procs["mqtt"] = "failed"
    /\ procs["solaredge"] = "terminated"
    /\ sinceDeath = 2 * PollSleep

\* C6: after a restart for a negative sleep the loop gets to sleep again: at
\* some clock reading of the interval ahead the sleep computed is not
\* negative (were there none, every iteration would restart for ever)
C6_RestartRecovers ==
    (IsAlive("solaredge") /\ sePc = "start" /\ cycles > 0 /\ NegativeSleep(sleep)) =>
        \E k \in 0..(config["read_every"].n \div Ms) :
            SleepFor(clock + k * Ms, config["read_every"].n, epsilon) >= 0

\* C7: a wake-up more than 0.05 s off its boundary goes straight back to the
\* head of the loop, the queue untouched; a wake-up at most 0.05 s off goes
\* on to read the device; and the device is read, a reading scaled or put,
\* only in an iteration whose offset was at most 0.05 s
C7_SkipRule ==
    /\ [](sePc \in {"read", "backoff", "scale", "put"} => Abs(delta) <= 50 * Ms)
    /\ [][(sePc = "wait" /\ sePc' # "wait") =>
             IF Abs(delta') > 50 * Ms
             THEN sePc' = "start" /\ mqtt_queue' = mqtt_queue /\ nextId' = nextId
             ELSE sePc' = "read"]_vars

\* C7: a wake-up exactly 0.05 s late, about to read the device
C7_Witness == sePc = "read" /\ delta = 50 * Ms

C9_ExitAfterChildren ==
    (supPc = "exited" /\ sigterm # {}) => \A p \in Children : Ended(p)

\* C9: the process exited after a child that it had to stop has ended
C9_Witness ==
    /\ supPc = "exited"
    /\ sigterm = Children
    /\ \E p \in Children : procs[p] = "terminated"

\* C10 as stated: the process never exits with a status other than 1
C10_AlwaysOne == exitStatus \in {<<>>, <<1>>}

\* C10 as amended: the exit status is 1 for every exit the program raises
\* itself (config file, missing host, a child's end, an interrupt while
\* monitoring); the parser's own exits are 0 for --help and 2 for a
\* command-line number it cannot convert
C10_ExitStatus ==
    supPc = "exited" =>
        exitStatus =
            IF argv.help THEN <<0>>
            ELSE IF \E o \in DOMAIN argv.opts \cap
                        {"solaredge_port", "read_every", "time_offset", "mqtt_port",
                         "buffer_size"} : ~argv.opts[o].numeric
            THEN <<2>>
            ELSE <<1>>

\* C10: the process exited with status 1 after an interrupt, no child
\* having ended before the shutdown
C10_Witness ==
    /\ supPc = "exited"
    /\ exitStatus = <<1>>
    /\ \A p \in Children : procs[p] = "terminated"

\* C11: once both children are started the supervisor leaves its monitoring
\* loop, signals the children and exits only with run False, and run becomes
\* False only by a KeyboardInterrupt or by a poll that finds a child not
\* alive; while both are alive and no interrupt arrives it stays in the loop
C11_NoSpuriousShutdown ==
    /\ []((supPc \in {"terminate", "exit"} \/ sigterm # {}) => ~run)
    /\ [](sigterm # {} => supPc \in {"exit", "exited"})
    /\ [][(run /\ ~run') =>
             \/ SupInterrupt
             \/ (supPc = "monitor" /\ \E p \in Children : procs[p] # "alive")]_vars
    /\ [][(supPc \in {"monitor", "sleep"} /\ supPc' \notin {"monitor", "sleep"}) =>
             (~run' /\ supPc' = "terminate")]_vars
    /\ [][(supPc \in {"monitor", "sleep"} /\ run /\ run'
             /\ \A p \in Children : procs[p] = "alive") =>
             supPc' \in {"monitor", "sleep"}]_vars

\* C11: a whole sleep is over, both children are alive and at work, and the
\* supervisor is about to poll again
C11_Witness ==
    /\ supPc = "sleep" /\ supSleepLeft = 0 /\ run
    /\ \A p \in Children : procs[p] = "alive"
    /\ lastPopped >= 1

\* C12: every numeric option of the config handed to the children is a
\* number: the children are started only with a device port, transport port,
\* poll interval, time offset and buffer capacity that are numbers
C12_ConfigNumbers ==
    (\E p \in Children : procs[p] # "unstarted") =>
        \A k \in {"solaredge_port", "mqtt_port", "read_every", "time_offset",
                  "buffer_size"} : config[k].kind = "num"

\* The pairs of the table have no value field in common, and no scale factor
\* is a value field
TableDisjoint ==
    /\ \A i, j \in DOMAIN SCALEFACTORS :
          i # j => SCALEFACTORS[i][2] \cap SCALEFACTORS[j][2] = {}
    /\ ScaleFields \cap TargetFields = {}

\* out is v * 10^e, held with FracDigits decimal places
IsScaled(out, v, e) ==
    IF e >= 0 THEN out = v * Pow10(e) * Pow10(FracDigits)
    ELSE out * Pow10(-e) = v * Pow10(FracDigits)

C14_TransformTotal ==
    (sePc = "scale" /\ \E s \in ScaleFields : s \notin DOMAIN data) =>
        procs["solaredge"] = "alive"

\* time stamp ts is x / Ms with its fraction cut off
IsTruncated(ts, x) ==
    IF x >= 0 THEN ts * Ms <= x /\ x < (ts + 1) * Ms
    ELSE (ts - 1) * Ms < x /\ x <= ts * Ms

\* time stamp ts is x / Ms rounded to the nearest integer
IsRounded(ts, x) == 2 * Abs(ts * Ms - x) <= Ms

\* C15 as stated: the time stamp of a record ready for the queue is
\* (nextrun - time_offset) in ms rounded to the nearest integer
C15_TimestampRounds ==
    sePc = "put" =>
        IsRounded(data["solaredge_mqtt_timestamp"], nextrun - config["time_offset"].n)

\* C15 as amended: every record put on the queue carries as its time stamp
\* (nextrun - time_offset) in ms with the fraction cut off (toward zero),
\* nextrun being the boundary computed at the head of the iteration: it is
\* assigned nowhere else
C15_TimestampTruncates ==
    /\ [][(nextId' # nextId /\ Len(mqtt_queue') > Len(mqtt_queue)) =>
             IsTruncated(mqtt_queue'[Len(mqtt_queue')].data["solaredge_mqtt_timestamp"],
                         nextrun - config["time_offset"].n)]_vars
    /\ [][nextrun' # nextrun => sePc = "start"]_vars

\* C15: a record on the queue for the boundary 100 s with a time offset of
\* 0.6 ms: 99999.4 ms, time stamp 99999
C15_Witness ==
    /\ config["time_offset"].n = 6
    /\ nextrun = 100 * Sec
    /\ Len(mqtt_queue) = 1
    /\ mqtt_queue[1].data["solaredge_mqtt_timestamp"] = 99999

\* C16: epsilon is 0 when solaredge_main() begins, and every return of the
\* wait - whether the run is then skipped or not - sets delta to start -
\* nextrun and adds a tenth of it to epsilon
C16_DriftCorrection ==
    /\ [](cycles = 0 => epsilon = 0)
    /\ [][(sePc = "wait" /\ sePc' # "wait") =>
             /\ delta' = clock' - nextrun
             /\ 10 * (epsilon' - epsilon) = delta']_vars

\* C16: a second wake-up, more than 0.05 s off and so skipped, has corrected
\* an epsilon that the first had already moved
C16_Witness ==
    /\ sePc = "start" /\ cycles = 2 /\ sleep >= 0
    /\ Abs(delta) > 50 * Ms
    /\ epsilon # 0 /\ 10 * epsilon # delta

\* C17: the boundary computed at the head of an iteration is the least
\* multiple of the interval that is not before now: it is a multiple, it is
\* less than one interval ahead of now, and it is now when now is a
\* multiple; with an interval of 5 s, 12.3 s gives 15 s
C17_NextBoundary ==
    /\ [][cycles' # cycles =>
             LET interval == config["read_every"].n
             IN /\ nextrun' % interval = 0
                /\ nextrun' >= clock
                /\ nextrun' - clock < interval
                /\ (clock % interval = 0 => nextrun' = clock)]_vars
    /\ []((cycles = 1 /\ sePc = "wait" /\ clock = 12300 * Ms
            /\ config["read_every"].n = 5 * Sec) => nextrun = 15 * Sec)

\* C17: the first iteration begun at 15.0 s with an interval of 5 s waits
\* for the boundary 15 s
C17_Witness ==
    /\ cycles = 1 /\ sePc = "wait"
    /\ config["read_every"].n = 5 * Sec
    /\ clock = 15 * Sec
    /\ nextrun = 15 * Sec

\* C18: epsilon changes only when the wait returns: the restart for a
\* negative sleep, the device read, the 5-second backoff, the scaling and
\* the put leave it as it is
C18_EpsilonFrame ==
    /\ [][epsilon' # epsilon => (sePc = "wait" /\ sePc' \in {"start", "read"})]_vars
    /\ [][(sePc \in {"start", "read", "backoff", "scale", "put"}) =>
             epsilon' = epsilon]_vars

\* C18: an iteration restarted for a negative sleep, with the epsilon that
\* earlier wake-ups left
C18_Witness ==
    /\ sePc = "start" /\ cycles >= 2
    /\ sleep < 0
    /\ epsilon # 0

\* C19: the records on the queue have strictly increasing time stamps
C19_TimestampsIncrease ==
    \A i, j \in 1..Len(mqtt_queue) :
        i < j => mqtt_queue[i].data["solaredge_mqtt_timestamp"]
                   < mqtt_queue[j].data["solaredge_mqtt_timestamp"]

\* The name an option of the config has in the config file
IniName(k) ==
    CASE k = "solaredge_port" -> "solaredge-port"
      [] k = "read_every" -> "read-every"
      [] k = "time_offset" -> "time-offset"
      [] k = "mqtt_port" -> "mqtt-port"
      [] k = "mqtt_client_id" -> "mqtt-client-id"
      [] k = "mqtt_topic" -> "mqtt-topic"
      [] k = "buffer_size" -> "buffer-size"

\* The value option k is to have: the command line's when it gives one, or
\* else the config file's when it gives one, or else the default
Precedence(k) ==
    IF k \in DOMAIN argv.opts THEN argv.opts[k].n
    ELSE IF "config" \in DOMAIN argv.opts /\ IniName(k) \in DOMAIN file.general
    THEN file.general[IniName(k)].n
    ELSE DEFAULTS[k].n

\* C20: the completed config holds for every option the command line's value
\* when one was given (0 included), or else the config file's, or else the
\* default
C20_Precedence ==
    supPc \in {"start_solaredge", "start_mqtt", "monitor"} =>
        \A k \in {"solaredge_port", "read_every", "time_offset", "mqtt_port",
                  "mqtt_client_id", "mqtt_topic", "buffer_size"} :
            k \in DOMAIN config /\ config[k].n = Precedence(k)

====
